---- MODULE Spec2Model ----
(***************************************************************************)
(* A model of serde-json-core's serializer (src/src/ser/mod.rs): the       *)
(* Serializer that writes JSON text into a fixed-capacity heapless Vec,    *)
(* the integer digit loops, the float scratch String, and the to_string /  *)
(* to_vec entry points.  Bytes are their numeric codes, as in the source.  *)
(***************************************************************************)
EXTENDS Integers, Sequences, FiniteSets, TLC

VARIABLES
    buf,      \* Serializer.buf: the bytes of the heapless Vec<u8, B>
    cap,      \* the capacity of B, fixed by the type parameter
    value,    \* the value handed to to_string / to_vec
    stack,    \* the call stack of Serialize::serialize calls in progress
    ret,      \* the Result travelling from a callee to its caller, or "none"
    result,   \* what to_string / to_vec returned, or "pending"
    output,   \* the String / Vec handed to the caller on Ok
    num,      \* the locals of the integer digit loop (serialize_*signed!)
    hist      \* history: the last operation, the buffer before it, the first failure

vars == <<buf, cap, value, stack, ret, result, output, num, hist>>

(***************************************************************************)
(* Bounds of the model.                                                    *)
(***************************************************************************)
\* capacities 0..MaxCap are tried in the aggregate model
MaxCap == 20
\* sequences and structs of 0..MaxElems elements
MaxElems == 2
\* wide integers are sampled within EdgeSpan of 0, of 2^(w-1) and of 2^w
EdgeSpan == 3
\* the byte-level buffer model appends slices of length 0..MaxSlice
MaxSlice == 3

(***************************************************************************)
(* Byte literals.                                                          *)
(***************************************************************************)
Quote == 34
Comma == 44
Minus == 45
Zero == 48
Colon == 58
LBracket == 91
RBracket == 93
LBrace == 123
RBrace == 125
LitTrue == <<116, 114, 117, 101>>
LitFalse == <<102, 97, 108, 115, 101>>
LitNull == <<110, 117, 108, 108>>

(***************************************************************************)
(* heapless::Vec<u8, B>: push and extend_from_slice.  Both refuse, and     *)
(* change nothing, when the new length would exceed the capacity.          *)
(***************************************************************************)
VecErr(b) == [ok |-> FALSE, buf |-> b]
VecOk(b) == [ok |-> TRUE, buf |-> b]

extend_from_slice(b, other) ==
    IF Len(b) + Len(other) > cap THEN VecErr(b) ELSE VecOk(b \o other)

push(b, byte) ==
    IF Len(b) + 1 > cap THEN VecErr(b) ELSE VecOk(Append(b, byte))

(***************************************************************************)
(* Results of the Serializer's methods: Result<(), Error> and the buffer   *)
(* the call leaves behind.  From<BufferFullError> maps a refused append    *)
(* to Error::BufferFull.                                                   *)
(***************************************************************************)
ErrorFromExtensible(e) == "__Extensible"

\* lines 38-42
ErrorFrom(e) == "BufferFull"

Done(r) == [res |-> IF r.ok THEN "Ok" ELSE ErrorFrom("BufferFullError"), buf |-> r.buf]

(***************************************************************************)
(* Machine integers.  A value of width w is its bit pattern, kept as       *)
(* little-endian limbs (one limb of 8 bits for w = 8, limbs of 16 bits     *)
(* otherwise), so every operation wraps at 2^w as the machine's does.      *)
(***************************************************************************)
IntTypes == {"i8", "i16", "i32", "i64", "u8", "u16", "u32", "u64"}

IsSigned(ty) == ty \in {"i8", "i16", "i32", "i64"}

Bits(ty) ==
    CASE ty \in {"i8", "u8"} -> 8
      [] ty \in {"i16", "u16"} -> 16
      [] ty \in {"i32", "u32"} -> 32
      [] ty \in {"i64", "u64"} -> 64

LimbBase(ty) == IF Bits(ty) = 8 THEN 256 ELSE 65536

NLimbs(ty) == IF Bits(ty) <= 16 THEN 1 ELSE Bits(ty) \div 16

\* scratch sizes without the byte for the sign
ScratchLenNoSign(ty) ==
    CASE ty = "i8" -> 3 [] ty = "i16" -> 5 [] ty = "i32" -> 10 [] ty = "i64" -> 19
      [] ty = "u8" -> 3 [] ty = "u16" -> 5 [] ty = "u32" -> 10 [] ty = "u64" -> 20

\* the scratch size $N each serialize_* method passes to its macro (lines 157-195)
ScratchLen(ty) ==
    CASE ty = "i8" -> 4 [] ty = "i16" -> 6 [] ty = "i32" -> 11 [] ty = "i64" -> 20
      [] ty = "u8" -> 3 [] ty = "u16" -> 5 [] ty = "u32" -> 10 [] ty = "u64" -> 20

IsZero(l) == \A k \in 1..Len(l) : l[k] = 0

RECURSIVE AddCarry(_, _, _, _)
\* l + carry from limb k upward, the carry out of the top limb dropped
AddCarry(l, k, carry, base) ==
    IF k > Len(l) THEN <<>>
    ELSE LET t == l[k] + carry
         IN  <<t % base>> \o AddCarry(l, k + 1, t \div base, base)

WrappingAdd(l, n, base) == AddCarry(l, 1, n, base)

\* the two's complement negation: !l + 1
WrappingNeg(l, base) ==
    WrappingAdd([k \in 1..Len(l) |-> base - 1 - l[k]], 1, base)

RECURSIVE DivHi(_, _, _, _)
\* long division by ten, from the top limb down
DivHi(l, k, rem, base) ==
    IF k = 0 THEN [q |-> <<>>, r |-> rem]
    ELSE LET cur == rem * base + l[k]
             rest == DivHi(l, k - 1, cur % 10, base)
         IN  [q |-> Append(rest.q, cur \div 10), r |-> rest.r]

Div10(l, base) == DivHi(l, Len(l), 0, base).q
Rem10(l, base) == DivHi(l, Len(l), 0, base).r

\* $ixx::min_value() and $ixx::max_value() as bit patterns
MinValue(ty) ==
    [k \in 1..NLimbs(ty) |-> IF k = NLimbs(ty) THEN LimbBase(ty) \div 2 ELSE 0]
MaxValue(ty) ==
    [k \in 1..NLimbs(ty) |->
        IF k = NLimbs(ty) THEN LimbBase(ty) \div 2 - 1 ELSE LimbBase(ty) - 1]

\* v < 0 for a signed pattern: the sign bit is set
IsNegative(ty, l) == l[NLimbs(ty)] >= LimbBase(ty) \div 2

(***************************************************************************)
(* The digit loops of serialize_unsigned! and serialize_signed!.  The      *)
(* locals are the record n: the type, the position in the macro, the       *)
(* remaining magnitude v, the sign flag, the index i and the scratch       *)
(* array buf (here scratch), which starts uninitialized.  An index is a    *)
(* usize: i - 1 at i = 0 overflows (a panic in a checked build, a wrap in  *)
(* an unchecked one); the model keeps the mathematical -1, which no        *)
(* scratch index accepts.  Uninit is the content of a scratch byte that    *)
(* was never written: it is no byte, so any use of it is visible.          *)
(***************************************************************************)
Uninit == -1

FreshScratch(ty) == [k \in 0..(ScratchLen(ty) - 1) |-> Uninit]

InScratch(n) == n.i \in DOMAIN n.scratch

Panic(n) == [n EXCEPT !.pc = "panic"]

\* lines 70-73: let mut buf = uninitialized; let mut v = $v; let mut i = $N - 1
serialize_unsigned_enter(ty, v) ==
    [ty |-> ty, pc |-> "loop", v |-> v, signed |-> FALSE,
     i |-> ScratchLen(ty) - 1, scratch |-> FreshScratch(ty)]

\* without the min_value() case -v overflows for the minimum: a panic
serialize_signed_enter_nomin(ty, v) ==
    [ty |-> ty,
     pc |-> IF v = MinValue(ty) THEN "panic" ELSE "loop",
     v |-> IF IsNegative(ty, v) THEN WrappingNeg(v, LimbBase(ty)) ELSE v,
     signed |-> IsNegative(ty, v),
     i |-> ScratchLen(ty) - 1, scratch |-> FreshScratch(ty)]

\* lines 92-102: the sign and the magnitude, then the scratch and the index
serialize_signed_enter(ty, v) ==
    LET sv == IF v = MinValue(ty)
                 THEN <<TRUE, WrappingAdd(MaxValue(ty), 1, LimbBase(ty))>>
              ELSE IF IsNegative(ty, v)
                 THEN <<TRUE, WrappingNeg(v, LimbBase(ty))>>
              ELSE <<FALSE, v>>
    IN  [ty |-> ty, pc |-> "loop", v |-> sv[2], signed |-> sv[1],
         i |-> ScratchLen(ty) - 1, scratch |-> FreshScratch(ty)]

\* lines 75-82: one turn of the unsigned loop
unsigned_loop(n) ==
    IF ~InScratch(n) THEN Panic(n)
    ELSE LET base == LimbBase(n.ty)
             q == Div10(n.v, base)
         IN  [n EXCEPT !.scratch[n.i] = Rem10(n.v, base) + Zero,
                       !.v = q,
                       !.i = IF IsZero(q) THEN n.i ELSE n.i - 1,
                       !.pc = IF IsZero(q) THEN "copy" ELSE "loop"]

\* lines 104-111: one turn of the signed loop
signed_loop(n) ==
    IF ~InScratch(n) THEN Panic(n)
    ELSE LET base == LimbBase(n.ty)
             q == Div10(n.v, base)
         IN  [n EXCEPT !.scratch[n.i] = Rem10(n.v, base) + Zero,
                       !.v = q,
                       !.i = n.i - 1,
                       !.pc = IF IsZero(q) THEN "sign" ELSE "loop"]

\* lines 114-118: the sign byte, or step back onto the first digit
signed_sign(n) ==
    IF n.signed
    THEN IF ~InScratch(n) THEN Panic(n)
         ELSE [n EXCEPT !.scratch[n.i] = Minus, !.pc = "copy"]
    ELSE [n EXCEPT !.i = n.i + 1, !.pc = "copy"]

\* one step of either macro's loop
IntStep(n) ==
    CASE n.pc = "loop" /\ IsSigned(n.ty) -> signed_loop(n)
      [] n.pc = "loop" /\ ~IsSigned(n.ty) -> unsigned_loop(n)
      [] n.pc = "sign" -> signed_sign(n)
      [] OTHER -> n

IntEnter(ty, v) ==
    IF IsSigned(ty) THEN serialize_signed_enter(ty, v) ELSE serialize_unsigned_enter(ty, v)

\* &buf[i..]: the filled suffix of the scratch
ScratchSuffix(n) ==
    [k \in 1..(ScratchLen(n.ty) - n.i) |-> n.scratch[n.i + k - 1]]

\* lines 85-86 and 119-120: $self.buf.extend_from_slice(&buf[i..])?; Ok(())
IntCopy(b, n) ==
    IF n.pc = "panic" \/ n.i \notin 0..ScratchLen(n.ty)
    THEN [res |-> "panic", buf |-> b]
    ELSE Done(extend_from_slice(b, ScratchSuffix(n)))

RECURSIVE RunLoop(_)
RunLoop(n) == IF n.pc \in {"loop", "sign"} THEN RunLoop(IntStep(n)) ELSE n

\* serialize_i8 .. serialize_u64 (lines 157-195), run to completion
serialize_int(b, ty, v) == IntCopy(b, RunLoop(IntEnter(ty, v)))

(***************************************************************************)
(* Integer inputs: every 8-bit pattern; for the wider types the patterns   *)
(* around 0, around the sign boundary 2^(w-1), below 2^w, and around every *)
(* power of ten the type holds (each digit count's first and last value),  *)
(* with their negations.                                                   *)
(***************************************************************************)
FromNat(ty, x) == [k \in 1..NLimbs(ty) |-> IF k = 1 THEN x ELSE 0]

AllOnes(ty) == [k \in 1..NLimbs(ty) |-> LimbBase(ty) - 1]

RECURSIVE MulCarry(_, _, _, _)
\* 10 * l + carry from limb k upward, the carry out of the top limb dropped
MulCarry(l, k, carry, base) ==
    IF k > Len(l) THEN <<>>
    ELSE LET t == l[k] * 10 + carry
         IN  <<t % base>> \o MulCarry(l, k + 1, t \div base, base)

RECURSIVE AddLimbs(_, _, _, _, _)
\* a + b modulo 2^w
AddLimbs(a, b, k, carry, base) ==
    IF k > Len(a) THEN <<>>
    ELSE LET t == a[k] + b[k] + carry
         IN  <<t % base>> \o AddLimbs(a, b, k + 1, t \div base, base)

RECURSIVE Pow10(_, _)
\* 10^e in the type's limbs, for an e small enough to fit
Pow10(ty, e) ==
    IF e = 0 THEN FromNat(ty, 1)
    ELSE MulCarry(Pow10(ty, e - 1), 1, 0, LimbBase(ty))

\* the most digits a magnitude of the type has
MaxDigits(ty) == IF IsSigned(ty) THEN ScratchLen(ty) - 1 ELSE ScratchLen(ty)

PowerPatterns(ty) ==
    LET near == UNION {{WrappingAdd(Pow10(ty, e), d, LimbBase(ty)) : d \in {-1, 0}} :
                        e \in 1..(MaxDigits(ty) - 1)}
    IN  near \cup {WrappingNeg(x, LimbBase(ty)) : x \in near}

EdgePatterns(ty) ==
    {FromNat(ty, x) : x \in 0..EdgeSpan}
    \cup {WrappingAdd(MinValue(ty), d, LimbBase(ty)) : d \in (0 - EdgeSpan)..EdgeSpan}
    \cup {WrappingAdd(AllOnes(ty), 0 - d, LimbBase(ty)) : d \in 0..EdgeSpan}

Patterns(ty) ==
    IF Bits(ty) = 8 THEN {<<x>> : x \in 0..255}
    ELSE EdgePatterns(ty) \cup PowerPatterns(ty)

IntValue(ty, v) == [t |-> "int", ty |-> ty, v |-> v]

IntValues == UNION {{IntValue(ty, v) : v \in Patterns(ty)} : ty \in IntTypes}

(***************************************************************************)
(* The integer encoder on its own: one call of serialize_i8 ..             *)
(* serialize_u64 on an empty buffer with room for the whole scratch,       *)
(* taken one loop turn at a time.                                          *)
(***************************************************************************)
NumIdle == [pc |-> "idle"]

NoHist == [op |-> "none", pre |-> <<>>, arg |-> <<>>, res |-> "none",
           failed |-> FALSE, failBuf |-> <<>>]

InitInt ==
    /\ value \in IntValues
    /\ cap = ScratchLen(value.ty)
    /\ buf = <<>>
    /\ stack = <<>>
    /\ ret = "none"
    /\ result = "pending"
    /\ output = <<>>
    /\ num = NumIdle
    /\ hist = NoHist

IntCall ==
    /\ num.pc = "idle"
    /\ num' = IntEnter(value.ty, value.v)
    /\ UNCHANGED <<buf, cap, value, stack, ret, result, output, hist>>

IntLoopTurn ==
    /\ num.pc = "loop"
    /\ num' = IntStep(num)
    /\ UNCHANGED <<buf, cap, value, stack, ret, result, output, hist>>

IntSign ==
    /\ num.pc = "sign"
    /\ num' = IntStep(num)
    /\ UNCHANGED <<buf, cap, value, stack, ret, result, output, hist>>

IntFinish ==
    /\ num.pc = "copy"
    /\ LET r == IntCopy(buf, num)
       IN  /\ buf' = r.buf
           /\ ret' = r.res
           /\ num' = [num EXCEPT !.pc = IF r.res = "panic" THEN "panic" ELSE "done"]
    /\ UNCHANGED <<cap, value, stack, result, output, hist>>

NextInt == IntCall \/ IntLoopTurn \/ IntSign \/ IntFinish

SpecInt == InitInt /\ [][NextInt]_vars

(***************************************************************************)
(* The canonical base-10 text of a w-bit value, stated by reading the text *)
(* back: the digits' value (Horner, in the type's limbs, no overflow) is   *)
(* the magnitude; for a negative text the value plus the magnitude is 0    *)
(* modulo 2^w.                                                             *)
(***************************************************************************)
IsDigit(b) == b \in Zero..(Zero + 9)

RECURSIVE Horner(_, _, _)
\* the value of the first k digits of ds, in limbs with one limb more than
\* the type has: the extra limb is 0 exactly when the value fits the type
Horner(ty, ds, k) ==
    IF k = 0 THEN [j \in 1..(NLimbs(ty) + 1) |-> 0]
    ELSE MulCarry(Horner(ty, ds, k - 1), 1, ds[k] - Zero, LimbBase(ty))

IsCanonicalText(ty, v, text) ==
    LET neg == Len(text) >= 1 /\ text[1] = Minus
        ds == IF neg THEN Tail(text) ELSE text
    IN  /\ Len(ds) >= 1
        /\ \A k \in 1..Len(ds) : IsDigit(ds[k])
        /\ ds[1] = Zero => Len(ds) = 1
        /\ LET h == Horner(ty, ds, Len(ds))
               m == SubSeq(h, 1, NLimbs(ty))
           IN  /\ h[NLimbs(ty) + 1] = 0
               /\ neg <=> (IsSigned(ty) /\ IsNegative(ty, v))
               /\ IF neg
                  THEN /\ ~IsZero(m)
                       /\ IsZero(AddLimbs(v, m, 1, 0, LimbBase(ty)))
                  ELSE m = v

\* C3: when an integer encoder returns, the bytes it appended are exactly the
\* canonical base-10 text of the value: '-' iff the value is negative, then the
\* digits of its magnitude without a leading zero (unless the value is 0), the
\* minimum signed value with magnitude max_signed + 1.
C3_CanonicalDecimal ==
    num.pc \in {"done", "panic"} =>
        /\ num.pc = "done"
        /\ ret = "Ok"
        /\ IsCanonicalText(value.ty, value.v, buf)
        /\ (value.ty = "i8" /\ value.v = <<128>>) => buf = <<45, 49, 50, 56>>

\* an i64 minimum has been encoded: 19 digits after the sign
C3_Witness ==
    /\ num.pc = "done"
    /\ value.ty = "i64"
    /\ value.v = MinValue("i64")
    /\ Len(buf) = 20
    /\ buf[1] = Minus

\* C10: in the digit loops the scratch index stays within 0..N-1 at every
\* turn and at the sign write, and every byte of the suffix buf[i..] that is
\* copied out was written before, so that no uninitialized byte is emitted.
C10_ScratchIndexAndInit ==
    /\ num.pc # "panic"
    /\ num.pc \in {"loop", "sign"} => num.i \in 0..(ScratchLen(num.ty) - 1)
    /\ num.pc = "copy" =>
        /\ num.i \in 0..(ScratchLen(num.ty) - 1)
        /\ \A k \in num.i..(ScratchLen(num.ty) - 1) : num.scratch[k] # Uninit
    /\ num.pc = "done" => \A k \in 1..Len(buf) : buf[k] # Uninit

\* the minimum i8 is about to be copied: the index reached 0, all four bytes written
C10_Witness ==
    /\ num.pc = "copy"
    /\ num.ty = "i8"
    /\ num.signed
    /\ num.i = 0
    /\ \A k \in 0..3 : num.scratch[k] # Uninit

(***************************************************************************)
(* The Serializer's scalar methods (impl ser::Serializer for &mut          *)
(* Serializer<B>).  Each takes the buffer it finds and gives the Result    *)
(* and the buffer it leaves; `?` returns at the first refused append.      *)
(***************************************************************************)
RECURSIVE PushAll(_, _, _)
PushAll(b, bytes, k) ==
    IF k > Len(bytes) THEN VecOk(b)
    ELSE LET r == push(b, bytes[k])
         IN  IF r.ok THEN PushAll(r.buf, bytes, k + 1) ELSE r

serialize_bool_bytewise(b, v) == Done(PushAll(b, IF v THEN LitTrue ELSE LitFalse, 1))

\* lines 147-155
serialize_bool(b, v) ==
    IF v THEN Done(extend_from_slice(b, LitTrue))
    ELSE Done(extend_from_slice(b, LitFalse))

\* the scratch String<[u8; 41]> of serialize_f32 / serialize_f64
FloatScratch == 41

\* lines 124-131 and 197-205.  A float is given by text, the bytes "{}"
\* formats it to; write! into the scratch String fails when they do not fit.
serialize_float(b, text) ==
    IF Len(text) > FloatScratch THEN [res |-> "FormatError", buf |-> b]
    ELSE Done(extend_from_slice(b, text))

\* char::encode_utf8, as called on line 209
encode_utf8(c) ==
    IF c < 128 THEN <<c>>
    ELSE IF c < 2048 THEN <<192 + (c \div 64), 128 + (c % 64)>>
    ELSE IF c < 65536
        THEN <<224 + (c \div 4096), 128 + ((c \div 64) % 64), 128 + (c % 64)>>
    ELSE <<240 + (c \div 262144), 128 + ((c \div 4096) % 64),
           128 + ((c \div 64) % 64), 128 + (c % 64)>>

\* lines 212-217
serialize_str(b, v) ==
    LET r1 == push(b, Quote)
    IN  IF ~r1.ok THEN Done(r1)
        ELSE LET r2 == extend_from_slice(r1.buf, v)
             IN  IF ~r2.ok THEN Done(r2)
                 ELSE Done(push(r2.buf, Quote))

\* lines 207-210
serialize_char(b, c) == serialize_str(b, encode_utf8(c))

serialize_none_empty(b) == Done(VecOk(b))

\* lines 223-226
serialize_none(b) == Done(extend_from_slice(b, LitNull))

\* lines 243-250: the variant's label; the name and the index are ignored
serialize_unit_variant(b, index, variant) == serialize_str(b, variant)

serialize_seq_silent(b) == Done(VecOk(b))

\* lines 276-280 (and serialize_tuple, lines 282-284, which calls it)
serialize_seq(b) == Done(push(b, LBracket))

serialize_struct_silent(b) == Done(VecOk(b))

\* lines 308-312
serialize_struct(b) == Done(push(b, LBrace))

IsScalar(v) == v.t \in {"bool", "int", "float", "str", "char", "variant", "none"}

\* Serialize::serialize of a scalar value: the one Serializer method it calls
SerializeScalar(b, v) ==
    CASE v.t = "bool" -> serialize_bool(b, v.b)
      [] v.t = "int" -> serialize_int(b, v.ty, v.v)
      [] v.t = "float" -> serialize_float(b, v.text)
      [] v.t = "str" -> serialize_str(b, v.s)
      [] v.t = "char" -> serialize_char(b, v.c)
      [] v.t = "variant" -> serialize_unit_variant(b, v.index, v.name)
      [] v.t = "none" -> serialize_none(b)

(***************************************************************************)
(* SerializeSeq and SerializeStruct (ser/seq.rs, ser/struct_.rs): the      *)
(* writes around the recursive call of an element or a field.              *)
(***************************************************************************)
OkWith(b) == [res |-> "Ok", buf |-> b]

\* SerializeSeq::serialize_element, up to the recursive call
seq_element_head(b, first) ==
    IF first THEN OkWith(b) ELSE Done(push(b, Comma))

\* SerializeSeq::end
seq_end(b) == Done(push(b, RBracket))

\* SerializeStruct::serialize_field, up to the recursive call
struct_field_head(b, first, name) ==
    LET r1 == IF first THEN OkWith(b) ELSE Done(push(b, Comma))
    IN  IF r1.res # "Ok" THEN r1
        ELSE LET r2 == serialize_str(r1.buf, name)
             IN  IF r2.res # "Ok" THEN r2
                 ELSE Done(push(r2.buf, Colon))

\* SerializeStruct::end
struct_end(b) == Done(push(b, RBrace))

(***************************************************************************)
(* The values offered for encoding.  A value is the shape its Serialize    *)
(* impl announces to the Serializer: a scalar, an Option, a sequence (or   *)
(* tuple) of values, or a struct of named fields.                          *)
(***************************************************************************)
Bool(b) == [t |-> "bool", b |-> b]
U8(x) == IntValue("u8", <<x>>)
I8(x) == IntValue("i8", <<x>>)
Str(s) == [t |-> "str", s |-> s]
Char(c) == [t |-> "char", c |-> c]
Variant(index, name) == [t |-> "variant", index |-> index, name |-> name]
None == [t |-> "none"]
Some(v) == [t |-> "some", v |-> v]
\* a float whose "{}" text is 1 followed by e zeros (1e0, 1e40, 1e41, ...)
FloatPow10(e) == [t |-> "float", text |-> <<49>> \o [k \in 1..e |-> Zero]]
\* 1.5
FloatSmall == [t |-> "float", text |-> <<49, 46, 53>>]
SeqValue(es) == [t |-> "seq", elems |-> es]
\* the k-th field is named "a", "b", ...
FieldName(k) == <<96 + k>>
StructValue(es) ==
    [t |-> "struct", fields |-> [k \in 1..Len(es) |-> [name |-> FieldName(k), v |-> es[k]]]]

TopScalars ==
    {Bool(TRUE), Bool(FALSE), None,
     Str(<<>>), Str(<<104, 105>>),
     Char(65), Char(233), Char(10084), Char(128512),
     Variant(0, <<111, 110>>), Variant(1, <<111, 102, 102>>),
     FloatSmall, FloatPow10(FloatScratch - 1), FloatPow10(FloatScratch),
     U8(0), U8(255), I8(128), I8(239),
     IntValue("u16", <<65535>>), IntValue("i32", MinValue("i32")),
     IntValue("i64", MinValue("i64")), IntValue("u64", AllOnes("u64"))}

Tuples(S) == UNION {[1..k -> S] : k \in 0..MaxElems}

FlatElems == {U8(0), Bool(TRUE), None, Str(<<104>>), Some(I8(128))}

NestedElems ==
    {U8(0), SeqValue(<<>>), SeqValue(<<Bool(TRUE), U8(0)>>),
     StructValue(<<None>>), Some(StructValue(<<U8(0)>>))}

Values ==
    TopScalars
    \cup {Some(v) : v \in TopScalars}
    \cup {SeqValue(es) : es \in Tuples(FlatElems) \cup Tuples(NestedElems)}
    \cup {StructValue(es) : es \in Tuples(FlatElems) \cup Tuples(NestedElems)}
    \cup {Some(Some(None)),
          SeqValue(<<FloatPow10(FloatScratch)>>),
          StructValue(<<Some(FloatPow10(FloatScratch))>>),
          SeqValue(<<SeqValue(<<SeqValue(<<U8(0), FloatSmall>>)>>)>>)}

\* the capacity N of the tests (line 432): ample for every value above
AmpleCap == 128

Capacities == 0..MaxCap \cup {AmpleCap}

(***************************************************************************)
(* One top-level call of to_string / to_vec.  The stack holds a frame per  *)
(* Serialize::serialize call in progress: the value, where the call        *)
(* stands, and for an aggregate the SerializeSeq / SerializeStruct state   *)
(* (first) with the index k of the next element.                           *)
(***************************************************************************)
NoOutput == [given |-> FALSE, bytes |-> <<>>]

Frame(v) == [v |-> v, pc |-> "call", k |-> 1, first |-> TRUE]

Top == stack[Len(stack)]

Pop == SubSeq(stack, 1, Len(stack) - 1)

SetTop(f) == [stack EXCEPT ![Len(stack)] = f]

Running == result = "running" /\ stack # <<>>

\* the history after an operation that found pre and was handed arg
Note(op, arg, res, after) ==
    [op |-> op, pre |-> buf, arg |-> arg, res |-> res,
     failed |-> hist.failed \/ res = "BufferFull",
     failBuf |-> IF ~hist.failed /\ res = "BufferFull" THEN after ELSE hist.failBuf]

Init ==
    /\ value \in Values
    /\ cap \in Capacities
    /\ buf = <<>>
    /\ stack = <<>>
    /\ ret = "none"
    /\ result = "idle"
    /\ output = NoOutput
    /\ num = NumIdle
    /\ hist = NoHist

\* lines 338-339 / 349-350: Serializer::new(), then value.serialize(&mut ser)
Call ==
    /\ result = "idle"
    /\ result' = "running"
    /\ buf' = <<>>
    /\ stack' = <<Frame(value)>>
    /\ UNCHANGED <<cap, value, ret, output, num, hist>>

\* a scalar value calls its Serializer method and returns what it returns
Scalar ==
    /\ Running /\ ret = "none"
    /\ Top.pc = "call" /\ IsScalar(Top.v)
    /\ LET r == SerializeScalar(buf, Top.v)
       IN  /\ buf' = r.buf
           /\ ret' = r.res
           /\ hist' = Note(Top.v.t, Top.v, r.res, r.buf)
    /\ stack' = Pop
    /\ UNCHANGED <<cap, value, result, output, num>>

\* lines 228-233: serialize_some returns value.serialize(self) as it is
serialize_some(r) == r

\* Option::serialize of Some(v): serialize_some calls v.serialize
SomeCall ==
    /\ Running /\ ret = "none"
    /\ Top.pc = "call" /\ Top.v.t = "some"
    /\ stack' = Append(SetTop([Top EXCEPT !.pc = "wait"]), Frame(Top.v.v))
    /\ UNCHANGED <<buf, cap, value, ret, result, output, num, hist>>

SomeReturn ==
    /\ Running /\ ret # "none"
    /\ Top.pc = "wait" /\ Top.v.t = "some"
    /\ ret' = serialize_some(ret)
    /\ stack' = Pop
    /\ UNCHANGED <<buf, cap, value, result, output, num, hist>>

\* the `?` of a caller: anything but Ok leaves the caller at once
IsErr(r) == r # "Ok"

\* [T]::serialize, first step: serializer.serialize_seq(Some(len))?
SeqBegin ==
    /\ Running /\ ret = "none"
    /\ Top.pc = "call" /\ Top.v.t = "seq"
    /\ LET r == serialize_seq(buf)
       IN  /\ buf' = r.buf
           /\ hist' = Note("serialize_seq", Top.v, r.res, r.buf)
           /\ IF IsErr(r.res)
              THEN ret' = r.res /\ stack' = Pop
              ELSE ret' = ret /\ stack' = SetTop([Top EXCEPT !.pc = "elems"])
    /\ UNCHANGED <<cap, value, result, output, num>>

\* seq.serialize_element(e)?: the separator, then e.serialize(&mut *self.ser)
SeqElement ==
    /\ Running /\ ret = "none"
    /\ Top.pc = "elems" /\ Top.v.t = "seq" /\ Top.k <= Len(Top.v.elems)
    /\ LET r == seq_element_head(buf, Top.first)
       IN  /\ buf' = r.buf
           /\ hist' = Note("serialize_element", Top.v.elems[Top.k], r.res, r.buf)
           /\ IF IsErr(r.res)
              THEN ret' = r.res /\ stack' = Pop
              ELSE /\ ret' = ret
                   /\ stack' = Append(SetTop([Top EXCEPT !.pc = "wait"]),
                                      Frame(Top.v.elems[Top.k]))
    /\ UNCHANGED <<cap, value, result, output, num>>

\* the element's serialize returned into serialize_element, and that into the loop
SeqElementReturn ==
    /\ Running /\ ret # "none"
    /\ Top.pc = "wait" /\ Top.v.t = "seq"
    /\ IF IsErr(ret)
       THEN ret' = ret /\ stack' = Pop
       ELSE /\ ret' = "none"
            /\ stack' = SetTop([Top EXCEPT !.pc = "elems", !.k = Top.k + 1,
                                           !.first = FALSE])
    /\ UNCHANGED <<buf, cap, value, result, output, num, hist>>

\* seq.end()
SeqEnd ==
    /\ Running /\ ret = "none"
    /\ Top.pc = "elems" /\ Top.v.t = "seq" /\ Top.k > Len(Top.v.elems)
    /\ LET r == seq_end(buf)
       IN  /\ buf' = r.buf
           /\ ret' = r.res
           /\ hist' = Note("end", Top.v, r.res, r.buf)
    /\ stack' = Pop
    /\ UNCHANGED <<cap, value, result, output, num>>

\* a derived struct's serialize, first step: serializer.serialize_struct(name, len)?
StructBegin ==
    /\ Running /\ ret = "none"
    /\ Top.pc = "call" /\ Top.v.t = "struct"
    /\ LET r == serialize_struct(buf)
       IN  /\ buf' = r.buf
           /\ hist' = Note("serialize_struct", Top.v, r.res, r.buf)
           /\ IF IsErr(r.res)
              THEN ret' = r.res /\ stack' = Pop
              ELSE ret' = ret /\ stack' = SetTop([Top EXCEPT !.pc = "elems"])
    /\ UNCHANGED <<cap, value, result, output, num>>

\* state.serialize_field(name, &self.field)?: separator, name, colon, then the value
StructField ==
    /\ Running /\ ret = "none"
    /\ Top.pc = "elems" /\ Top.v.t = "struct" /\ Top.k <= Len(Top.v.fields)
    /\ LET r == struct_field_head(buf, Top.first, Top.v.fields[Top.k].name)
       IN  /\ buf' = r.buf
           /\ hist' = Note("serialize_field", Top.v.fields[Top.k].v, r.res, r.buf)
           /\ IF IsErr(r.res)
              THEN ret' = r.res /\ stack' = Pop
              ELSE /\ ret' = ret
                   /\ stack' = Append(SetTop([Top EXCEPT !.pc = "wait"]),
                                      Frame(Top.v.fields[Top.k].v))
    /\ UNCHANGED <<cap, value, result, output, num>>

StructFieldReturn ==
    /\ Running /\ ret # "none"
    /\ Top.pc = "wait" /\ Top.v.t = "struct"
    /\ IF IsErr(ret)
       THEN ret' = ret /\ stack' = Pop
       ELSE /\ ret' = "none"
            /\ stack' = SetTop([Top EXCEPT !.pc = "elems", !.k = Top.k + 1,
                                           !.first = FALSE])
    /\ UNCHANGED <<buf, cap, value, result, output, num, hist>>

\* state.end()
StructEnd ==
    /\ Running /\ ret = "none"
    /\ Top.pc = "elems" /\ Top.v.t = "struct" /\ Top.k > Len(Top.v.fields)
    /\ LET r == struct_end(buf)
       IN  /\ buf' = r.buf
           /\ ret' = r.res
           /\ hist' = Note("end", Top.v, r.res, r.buf)
    /\ stack' = Pop
    /\ UNCHANGED <<cap, value, result, output, num>>

to_string_unchecked(r, b) == [res |-> "Ok", out |-> [given |-> TRUE, bytes |-> b]]

\* lines 339-340 / 350-351: value.serialize(&mut ser)?; Ok(ser.buf)
to_string(r, b) ==
    IF IsErr(r) THEN [res |-> r, out |-> NoOutput]
    ELSE [res |-> "Ok", out |-> [given |-> TRUE, bytes |-> b]]

Return ==
    /\ result = "running" /\ stack = <<>> /\ ret # "none"
    /\ LET r == to_string(ret, buf)
       IN  result' = r.res /\ output' = r.out
    /\ ret' = "none"
    /\ UNCHANGED <<buf, cap, value, stack, num, hist>>

Next ==
    \/ Call
    \/ Scalar
    \/ SomeCall
    \/ SomeReturn
    \/ SeqBegin
    \/ SeqElement
    \/ SeqElementReturn
    \/ SeqEnd
    \/ StructBegin
    \/ StructField
    \/ StructFieldReturn
    \/ StructEnd
    \/ Return

Spec == Init /\ [][Next]_vars

(***************************************************************************)
(* The output grammar: the JSON text of a value, by shape.                 *)
(***************************************************************************)
\* the digits the integer encoder leaves in its scratch
IntText(ty, v) == ScratchSuffix(RunLoop(IntEnter(ty, v)))

Quoted(s) == <<Quote>> \o s \o <<Quote>>

RECURSIVE Json(_), JoinElems(_, _), JoinFields(_, _)
Json(v) ==
    CASE v.t = "bool" -> IF v.b THEN LitTrue ELSE LitFalse
      [] v.t = "int" -> IntText(v.ty, v.v)
      [] v.t = "float" -> v.text
      [] v.t = "str" -> Quoted(v.s)
      [] v.t = "char" -> Quoted(encode_utf8(v.c))
      [] v.t = "variant" -> Quoted(v.name)
      [] v.t = "none" -> LitNull
      [] v.t = "some" -> Json(v.v)
      [] v.t = "seq" -> <<LBracket>> \o JoinElems(v.elems, 1) \o <<RBracket>>
      [] v.t = "struct" -> <<LBrace>> \o JoinFields(v.fields, 1) \o <<RBrace>>

\* elements k.. of es, a comma before each but the first of all
JoinElems(es, k) ==
    IF k > Len(es) THEN <<>>
    ELSE (IF k = 1 THEN <<>> ELSE <<Comma>>) \o Json(es[k]) \o JoinElems(es, k + 1)

Entry(f) == Quoted(f.name) \o <<Colon>> \o Json(f.v)

JoinFields(fs, k) ==
    IF k > Len(fs) THEN <<>>
    ELSE (IF k = 1 THEN <<>> ELSE <<Comma>>) \o Entry(fs[k]) \o JoinFields(fs, k + 1)

Finished == result \notin {"idle", "running"}

RECURSIVE SumLen(_, _)
SumLen(texts, k) == IF k = 0 THEN 0 ELSE Len(texts[k]) + SumLen(texts, k - 1)

\* where the k-th of the texts starts in an aggregate: after the opening
\* byte, the earlier texts and one separator for each of them
StartOf(texts, k) == 2 + SumLen(texts, k - 1) + (k - 1)

\* bytes is open, the texts in order with exactly one comma between
\* neighbours, close, and nothing else
IsAggregateOf(bytes, open, texts, close) ==
    LET n == Len(texts)
    IN  /\ Len(bytes) = 2 + SumLen(texts, n) + (IF n = 0 THEN 0 ELSE n - 1)
        /\ bytes[1] = open
        /\ bytes[Len(bytes)] = close
        /\ \A k \in 1..n :
              /\ SubSeq(bytes, StartOf(texts, k), StartOf(texts, k) + Len(texts[k]) - 1)
                    = texts[k]
              /\ k > 1 => bytes[StartOf(texts, k) - 1] = Comma

\* C2: with capacity at least the length n of the value's text the call
\* succeeds and returns exactly that text; with capacity n - 1 it fails with
\* BufferFull and returns nothing.
C2_ExactCapacity ==
    Finished =>
        LET text == Json(value)
        IN  /\ cap >= Len(text) =>
                result = "Ok" /\ output = [given |-> TRUE, bytes |-> text]
            /\ cap = Len(text) - 1 =>
                result = "BufferFull" /\ output = NoOutput

\* C4: a sequence of N elements, encoded with ample capacity, is '[', the N
\* element encodings in order with one ',' between neighbours, ']': N-1
\* separators, none leading or trailing, and "[]" for N = 0.
C4_SequenceLayout ==
    (Finished /\ result = "Ok" /\ cap = AmpleCap /\ value.t = "seq") =>
        /\ output.given
        /\ IsAggregateOf(output.bytes, LBracket,
                         [k \in 1..Len(value.elems) |-> Json(value.elems[k])], RBracket)
        /\ Len(value.elems) = 0 => output.bytes = <<LBracket, RBracket>>

\* [true,0] nested in a two-element sequence was encoded
C4_Witness ==
    /\ Finished /\ result = "Ok" /\ cap = AmpleCap
    /\ value = SeqValue(<<U8(0), SeqValue(<<Bool(TRUE), U8(0)>>)>>)
    /\ output.bytes = <<91, 48, 44, 91, 116, 114, 117, 101, 44, 48, 93, 93>>

\* C5: a struct of N fields, encoded with ample capacity, is '{', the N
\* entries "name":value in call order with one ',' between neighbours, '}':
\* N-1 separators, and "{}" for N = 0.
C5_StructLayout ==
    (Finished /\ result = "Ok" /\ cap = AmpleCap /\ value.t = "struct") =>
        /\ output.given
        /\ IsAggregateOf(output.bytes, LBrace,
                         [k \in 1..Len(value.fields) |-> Entry(value.fields[k])], RBrace)
        /\ Len(value.fields) = 0 => output.bytes = <<LBrace, RBrace>>

\* {"a":true,"b":0} was encoded
C5_Witness ==
    /\ Finished /\ result = "Ok" /\ cap = AmpleCap
    /\ value = StructValue(<<Bool(TRUE), U8(0)>>)
    /\ output.bytes = <<123, 34, 97, 34, 58, 116, 114, 117, 101, 44,
                        34, 98, 34, 58, 48, 125>>

\* C6: to_string / to_vec returns Ok or BufferFull, never another error.
C6_OnlyBufferFull == result \in {"idle", "running", "Ok", "BufferFull"}

\* the scalar shapes the claim about tokens names
TokenKinds == {"bool", "int", "none", "str", "char", "variant"}

\* C7 as stated: when the encoding of one scalar token fails with
\* BufferFull, the buffer is exactly what it was before the token began.
C7_TokenLeavesNothing ==
    (hist.op \in TokenKinds /\ hist.res = "BufferFull") => buf = hist.pre

\* the text between the quotes of a string, character or label token
TokenBody(v) ==
    CASE v.t = "str" -> v.s
      [] v.t = "char" -> encode_utf8(v.c)
      [] v.t = "variant" -> v.name

\* C7 as amended: the append that fails changes nothing.  A boolean, integer
\* or null token that fails leaves the buffer as it was before the token; a
\* string, character or label token that fails leaves what its earlier
\* appends wrote: nothing if the opening quote did not fit, the opening
\* quote if the text did not fit, the opening quote and the text if the
\* closing quote did not fit.
C7_FailedTokenPrefix ==
    (hist.op \in TokenKinds /\ hist.res = "BufferFull") =>
        IF hist.op \in {"bool", "int", "none"}
        THEN /\ buf = hist.pre
             /\ Len(hist.pre) + Len(Json(hist.arg)) > cap
        ELSE LET body == TokenBody(hist.arg)
                 room == cap - Len(hist.pre)
             IN  /\ room < Len(body) + 2
                 /\ buf = CASE room < 1 -> hist.pre
                            [] room >= 1 /\ room < 1 + Len(body) -> hist.pre \o <<Quote>>
                            [] OTHER -> hist.pre \o <<Quote>> \o body

\* "hi" failed at its closing quote: the buffer holds the unterminated "hi
C7_Witness ==
    /\ hist.op = "str" /\ hist.res = "BufferFull"
    /\ hist.arg = Str(<<104, 105>>)
    /\ buf = <<34, 104, 105>>

\* C8: once an append has failed, no byte is appended any more, and the
\* top-level call returns BufferFull with no output, whatever the depth of
\* sequences, structs and present optionals the failure happened at.
C8_FailurePropagates ==
    hist.failed =>
        /\ buf = hist.failBuf
        /\ ret \in {"none", "BufferFull"}
        /\ Finished => (result = "BufferFull" /\ output = NoOutput)

\* the float three sequences deep did not fit after "[[[0,"
C8_Witness ==
    /\ Finished /\ result = "BufferFull" /\ hist.failed
    /\ value = SeqValue(<<SeqValue(<<SeqValue(<<U8(0), FloatSmall>>)>>)>>)
    /\ hist.failBuf = <<91, 91, 91, 48, 44>>

\* C9: an absent optional is the literal null, a present one exactly the
\* encoding of the wrapped value; an absent field of a struct is the entry
\* "field":null in its place, so a struct of N fields has N entries.
C9_OptionEncoding ==
    (Finished /\ result = "Ok") =>
        /\ value.t = "none" => output.bytes = LitNull
        /\ value.t = "some" => output.bytes = Json(value.v)
        /\ value.t = "struct" =>
              LET entries == [k \in 1..Len(value.fields) |->
                                IF value.fields[k].v.t = "none"
                                THEN Quoted(value.fields[k].name) \o <<Colon>> \o LitNull
                                ELSE Entry(value.fields[k])]
              IN  IsAggregateOf(output.bytes, LBrace, entries, RBrace)

\* {"a":null,"b":null} was encoded
C9_Witness ==
    /\ Finished /\ result = "Ok"
    /\ value = StructValue(<<None, None>>)
    /\ output.bytes = <<123, 34, 97, 34, 58, 110, 117, 108, 108, 44,
                        34, 98, 34, 58, 110, 117, 108, 108, 125>>

(***************************************************************************)
(* The buffer on its own: any sequence of push(byte) and append(bytes),    *)
(* each result converted by `?` as the Serializer's methods convert it.    *)
(***************************************************************************)
Alphabet == {97, 98}

Slices == UNION {[1..k -> Alphabet] : k \in 0..MaxSlice}

InitBuf ==
    /\ cap \in 0..(MaxSlice + 2)
    /\ buf = <<>>
    /\ value = None
    /\ stack = <<>>
    /\ ret = "none"
    /\ result = "idle"
    /\ output = NoOutput
    /\ num = NumIdle
    /\ hist = NoHist

BufPush ==
    \E byte \in Alphabet :
        LET r == Done(push(buf, byte))
        IN  /\ buf' = r.buf
            /\ ret' = r.res
            /\ hist' = Note("push", <<byte>>, r.res, r.buf)
            /\ UNCHANGED <<cap, value, stack, result, output, num>>

BufAppend ==
    \E bytes \in Slices :
        LET r == Done(extend_from_slice(buf, bytes))
        IN  /\ buf' = r.buf
            /\ ret' = r.res
            /\ hist' = Note("append", bytes, r.res, r.buf)
            /\ UNCHANGED <<cap, value, stack, result, output, num>>

NextBuf == BufPush \/ BufAppend

SpecBuf == InitBuf /\ [][NextBuf]_vars

\* C1: an append of len bytes to a buffer of length L and capacity C fails,
\* with BufferFull, exactly when L + len > C; a successful append adds
\* exactly the len bytes after the earlier ones; a failed one leaves the
\* length and the contents as they were.
C1_AppendAllOrNothing ==
    /\ Len(buf) <= cap
    /\ hist.op \in {"push", "append"} =>
        /\ hist.res \in {"Ok", "BufferFull"}
        /\ hist.res = "BufferFull" <=> Len(hist.pre) + Len(hist.arg) > cap
        /\ hist.res = "Ok" =>
              /\ Len(buf) = Len(hist.pre) + Len(hist.arg)
              /\ buf = hist.pre \o hist.arg
        /\ hist.res = "BufferFull" => buf = hist.pre

\* an append that would end one byte past the capacity, after earlier bytes
C1_Witness ==
    /\ hist.op = "append" /\ hist.res = "BufferFull"
    /\ Len(hist.pre) > 0
    /\ Len(hist.arg) > 1
    /\ Len(hist.pre) + Len(hist.arg) = cap + 1
    /\ buf = hist.pre

====
